---- MODULE Spec2Model ----
(***************************************************************************)
(* Operation builder and execution pipeline of nest-cqrs-factory:          *)
(* OperationFactory.create, OperationBuilderBase (set / get / clear /      *)
(* build / execute / mapToException) and the OperationFailedException      *)
(* taxonomy.                                                               *)
(*                                                                         *)
(* JavaScript values are records with a `cls` field: primitives carry      *)
(* their payload in `str` / `num`, objects carry an identity `id`.  Two    *)
(* objects are the same object iff the records are equal (same id).        *)
(***************************************************************************)
EXTENDS Integers, Sequences, FiniteSets, TLC

\* ------------------------------------------------------------------ bounds
MaxSets == 2
MaxCalls == 2
MaxDelay == 1

\* @MaxLength(5) of the operation types used by the factory's tests
NameMaxLength == 5

\* ------------------------------------------------------------ JS values
Undefined == [cls |-> "undefined"]
Str(s) == [cls |-> "string", str |-> s]
Num(n) == [cls |-> "number", num |-> n]

\* String(v) for the primitive values
String(v) ==
  CASE v.cls = "string" -> v.str
    [] v.cls = "number" -> ToString(v.num)
    [] v.cls = "undefined" -> "undefined"

\* value.toUpperCase() on the strings the model uses
ToUpperCase(s) ==
  CASE s = "John" -> "JOHN"
    [] s = "JohnJohn" -> "JOHNJOHN"
    [] s = "user" -> "USER"
    [] OTHER -> s

\* the prototype chain of the classes involved (class -> superclass)
Parent(c) ==
  CASE c = "CreateUserException" -> "CommandFailedException"
    [] c = "CommandFailedException" -> "OperationFailedException"
    [] c = "QueryFailedException" -> "OperationFailedException"
    [] c = "OperationFailedException" -> "Error"
    [] c = "CommandHandlerNotFoundException" -> "Error"
    [] c = "QueryHandlerNotFoundException" -> "Error"
    [] c = "AggregateError" -> "Error"
    [] c = "TypeError" -> "Error"
    [] c = "CustomError" -> "Error"
    [] c = "ReportError" -> "Error"
    [] c = "Error" -> "Object"
    [] OTHER -> "none"

RECURSIVE InstanceOf(_, _)
\* v instanceof c, for a class name vc standing for v's constructor
InstanceOf(vc, c) ==
  IF vc = "none" THEN FALSE
  ELSE IF vc = c THEN TRUE
  ELSE InstanceOf(Parent(vc), c)

RECURSIVE Join(_, _)
\* Array.prototype.join
Join(seq, sep) ==
  IF Len(seq) = 0 THEN ""
  ELSE IF Len(seq) = 1 THEN seq[1]
  ELSE seq[1] \o sep \o Join(Tail(seq), sep)

\* array.map(error => error.message)
Messages(errors) == [i \in 1..Len(errors) |-> errors[i].message]

NoError == Undefined

\* new Error(message)
NewError(id, message) == [cls |-> "Error", message |-> message, id |-> id]

\* new AggregateError(errors, message)
NewAggregateError(id, errors, message) ==
  [cls |-> "AggregateError", errors |-> errors, message |-> message, id |-> id]

\* ------------------------------------------------- exception taxonomy
BaseErrorCodes ==
  [INTERNAL_HANDLER_ERROR |-> "INTERNAL_HANDLER_ERROR",
   HANDLER_NOT_FOUND |-> "HANDLER_NOT_FOUND",
   INVALID_OPERATION |-> "INVALID_OPERATION"]

\* the errorCodes table of the two branches
BranchErrorCodes(cls) ==
  IF InstanceOf(cls, "CommandFailedException")
  THEN [BaseErrorCodes EXCEPT !.INVALID_OPERATION = "INVALID_COMMAND"]
  ELSE IF InstanceOf(cls, "QueryFailedException")
  THEN [BaseErrorCodes EXCEPT !.INVALID_OPERATION = "INVALID_QUERY"]
  ELSE BaseErrorCodes

\* the entries a declared subclass spreads into its own errorCodes
OwnErrorCodes(cls) ==
  IF cls = "CreateUserException"
  THEN [USER_ALREADY_EXISTS |-> "USER_ALREADY_EXISTS"]
  ELSE <<>>

ErrorCodesMutantNoOverride(cls) == BaseErrorCodes

\* the static errorCodes table seen through `this` in a static factory
ErrorCodes(cls) ==
  [c \in DOMAIN BranchErrorCodes(cls) \cup DOMAIN OwnErrorCodes(cls) |->
     IF c \in DOMAIN OwnErrorCodes(cls) THEN OwnErrorCodes(cls)[c]
     ELSE BranchErrorCodes(cls)[c]]

\* the static operationType seen through `this` in a static factory
OperationType(cls) ==
  IF InstanceOf(cls, "CommandFailedException") THEN "Command"
  ELSE IF InstanceOf(cls, "QueryFailedException") THEN "Query"
  ELSE "Operation"

\* new cls(code, operation, reason, origError)
NewExceptionMutantNoReason(cls, id, code, operation, reason, origError) ==
  [cls |-> cls,
   message |-> "Cqrs operation \"" \o operation.cls \o "\" failed!",
   id |-> id, code |-> code,
   operation |-> operation,
   reason |-> reason,
   origError |-> origError]

NewException(cls, id, code, operation, reason, origError) ==
  [cls |-> cls,
   message |-> "Cqrs operation \"" \o operation.cls \o "\" failed! " \o reason,
   id |-> id, code |-> code,
   operation |-> operation,
   reason |-> reason,
   origError |-> origError]

HandlerNotFound(cls, id, operation, origError) ==
  NewException(cls, id, ErrorCodes(cls).HANDLER_NOT_FOUND, operation,
    "Handler for " \o OperationType(cls) \o " \"" \o operation.cls
      \o "\" not found!",
    origError)

\* Array.isArray(origError.errors): of the classes that declare an `errors`
\* property, ReportError declares it as a string
ErrorsIsArray(origError) == origError.cls # "ReportError"

OrigErrorMessageMutantOwnMessage(origError) ==
  IF InstanceOf(origError.cls, "AggregateError")
  THEN Join(Messages(origError.errors), "\n")
  ELSE origError.message

\* the joined messages of InternalHandlerError
OrigErrorMessage(origError) ==
  IF InstanceOf(origError.cls, "AggregateError")
  THEN Join(Messages(origError.errors), "\n")
  ELSE IF "errors" \in DOMAIN origError /\ ErrorsIsArray(origError)
  THEN Join(Messages(origError.errors), "\n")
  ELSE origError.message

InternalHandlerError(cls, id, operation, origError) ==
  NewException(cls, id, ErrorCodes(cls).INTERNAL_HANDLER_ERROR, operation,
    "Internal handler error: " \o OrigErrorMessage(origError), origError)

\* the "\n\t"-joined constraint lines of one validation error; constraints
\* are kept as the ordered <<name, message>> pairs Reflect.ownKeys yields
ConstraintLines(constraints) ==
  "\n\t" \o Join([i \in 1..Len(constraints) |->
    "\"" \o constraints[i][1] \o "\": " \o constraints[i][2] \o "."],
    "\n\t")

RECURSIVE BuildValidationErrorMessage(_, _)
BuildValidationErrorMessage(error, parentName) ==
  LET propertyName == IF parentName # ""
                      THEN parentName \o "." \o error.property
                      ELSE error.property
      head == "Validation of \"" \o propertyName \o "\" failed!"
                \o (IF "constraints" \in DOMAIN error
                    THEN ConstraintLines(error.constraints) ELSE "")
  IN IF "children" \in DOMAIN error /\ Len(error.children) > 0
     THEN head \o "\n" \o
          Join([i \in 1..Len(error.children) |->
                 BuildValidationErrorMessage(error.children[i], propertyName)],
               "\n\t")
     ELSE head

InvalidOperationMutant(cls, id, action, validationErrors) ==
  NewException(cls, id + 1, ErrorCodes(cls).INVALID_OPERATION, action,
    "Invalid " \o OperationType(cls) \o ": " \o
      Join([i \in 1..Len(validationErrors) |->
             BuildValidationErrorMessage(validationErrors[i], "")], "\n"),
    NewAggregateError(id, <<validationErrors[1]>>, "Validation failed!"))

\* allocates two objects: the AggregateError (id) and the exception (id + 1)
InvalidOperation(cls, id, action, validationErrors) ==
  NewException(cls, id + 1, ErrorCodes(cls).INVALID_OPERATION, action,
    "Invalid " \o OperationType(cls) \o ": " \o
      Join([i \in 1..Len(validationErrors) |->
             BuildValidationErrorMessage(validationErrors[i], "")], "\n"),
    NewAggregateError(id, validationErrors, "Validation failed!"))

\* ------------------------------------------------------ operation types
\* The operation classes of the model, after the classes the tests declare:
\*   @Command() class MyCommand {
\*     @MaxLength(5) name!: string;  @MaxLength(5) role = 'user' }
\*   @Command({ throws: CreateUserException }) class CreateUser {
\*     @MaxLength(5) @Transform(toUpperCase) name!: string }
\*   @Query() class GetUser { @MaxLength(5) name!: string; role = 'user' }
\*   class Plain {}                       (no decorator)
OperationCtors == {"MyCommand", "CreateUser", "GetUser", "Plain"}

\* keys a caller passes to set / get; "extra" is declared by no class
Keys == {"name", "role", "extra"}

\* values a caller passes to set
SetValues == {Str("John"), Str("JohnJohn")}

DeclaredFields(t) ==
  CASE t = "MyCommand" -> <<"name", "role">>
    [] t = "CreateUser" -> <<"name">>
    [] t = "GetUser" -> <<"name", "role">>
    [] OTHER -> <<>>

DeclaredSet(t) == {DeclaredFields(t)[i] : i \in 1..Len(DeclaredFields(t))}

\* the fields with an initializer, and its value
DefaultedFields(t) ==
  IF t \in {"MyCommand", "GetUser"} THEN {"role"} ELSE {}

FieldDefault(t, k) ==
  IF k \in DefaultedFields(t) THEN Str("user") ELSE Undefined

HasMaxLength(t, k) ==
  \/ t = "MyCommand" /\ k \in {"name", "role"}
  \/ t = "CreateUser" /\ k = "name"
  \/ t = "GetUser" /\ k = "name"

HasTransform(t, k) == t = "CreateUser" /\ k = "name"

\* @Transform(({ value }) => typeof value === 'string' ? value.toUpperCase() : value)
Transform(t, k, v) ==
  IF HasTransform(t, k) /\ v.cls = "string" THEN Str(ToUpperCase(v.str)) ELSE v

\* the options each class passes to its decorator ("none": options.throws unset)
Throws(t) == IF t = "CreateUser" THEN "CreateUserException" ELSE "none"

OperationDecoratorMutantNoThrows(t, defaultExceptionCtor) ==
  [type |-> t, exceptionFactory |-> defaultExceptionCtor]

\* createOperationDecorator(...)(options)(target): the descriptor stored
OperationDecorator(t, defaultExceptionCtor) ==
  [type |-> t,
   exceptionFactory |-> IF Throws(t) # "none" THEN Throws(t)
                        ELSE defaultExceptionCtor]

\* Command.metadata / Query.metadata after the classes are declared
CommandMetadata ==
  [t \in {"MyCommand", "CreateUser"} |->
     OperationDecorator(t, "CommandFailedException")]

QueryMetadata ==
  [t \in {"GetUser"} |-> OperationDecorator(t, "QueryFailedException")]

\* CommandFactory / QueryFactory .getExceptionFactory
GetExceptionFactory(factory, t) ==
  IF factory = "command"
  THEN IF t \in DOMAIN CommandMetadata
       THEN CommandMetadata[t].exceptionFactory ELSE "none"
  ELSE IF t \in DOMAIN QueryMetadata
       THEN QueryMetadata[t].exceptionFactory ELSE "none"

\* ------------------------------------- class-transformer / class-validator
\* plainToInstance(ctor, plain, { exposeDefaultValues: true }): a new ctor()
\* whose declared fields hold their initializers, overwritten by every key of
\* `plain` that holds a value (transformed); a key whose value is undefined
\* keeps the initializer
PlainToInstance(t, id, plain) ==
  [cls |-> t, id |-> id,
   fields |-> [k \in DeclaredSet(t) \cup DOMAIN plain |->
                 IF k \in DOMAIN plain /\ plain[k] # Undefined
                 THEN Transform(t, k, plain[k])
                 ELSE FieldDefault(t, k)]]

\* instanceToPlain(instance): the own fields of the instance
InstanceToPlain(instance) == instance.fields

MaxLengthOk(v) == v.cls = "string" /\ Len(v.str) <= NameMaxLength

ValidationErrorOf(k) ==
  [constraints |-> <<  <<"maxLength",
       k \o " must be shorter than or equal to " \o ToString(NameMaxLength)
         \o " characters">>  >>,
   property |-> k,
   children |-> <<>>]

\* validate(operation): one ValidationError per declared field that breaks
\* its constraint, in declaration order
Validate(operation) ==
  LET t == operation.cls
      bad == SelectSeq(DeclaredFields(t),
               LAMBDA k : HasMaxLength(t, k) /\ ~MaxLengthOk(operation.fields[k]))
  IN [i \in 1..Len(bad) |-> ValidationErrorOf(bad[i])]

\* ------------------------------------------------- what the executor does
ExecutorResults == {Num(42), Undefined}

SomeOperation == [cls |-> "CreateUser", id |-> 100, fields |-> <<>>]

\* values the executor (a handler behind the bus) rejects with
AlreadyClassified ==
  {NewException("CreateUserException", 101, "USER_ALREADY_EXISTS",
     SomeOperation, "User \"John\" already exists", NoError),
   NewException("QueryFailedException", 102, "INTERNAL_HANDLER_ERROR",
     SomeOperation, "Custom error", NewError(103, "cause")),
   NewException("CommandFailedException", 104, "INTERNAL_HANDLER_ERROR",
     SomeOperation, "Custom error", NoError)}

HandlerNotFoundSignals ==
  {[cls |-> "CommandHandlerNotFoundException",
    message |-> "The command handler for the \"MyCommand\" command was not found!",
    id |-> 105],
   [cls |-> "QueryHandlerNotFoundException",
    message |-> "The query handler for the \"GetUser\" query was not found!",
    id |-> 106]}

OtherErrors == {NewError(107, "Custom error")}

NonErrors == {Str("Custom error"), Num(42)}

ExecutorRejections ==
  AlreadyClassified \cup HandlerNotFoundSignals \cup OtherErrors \cup NonErrors

\* --------------------------------------------------------------- state
VARIABLES
  ctor,              \* the operation class of the builder ("none": no builder yet)
  createError,       \* what OperationFactory.create threw (Undefined: nothing)
  executor,          \* OperationBuilderBase.executor: "none" or "bus"
  logger,            \* OperationBuilderBase.logger: "none", "CommandLogger" or "QueryLogger"
  exceptionFactory,  \* OperationBuilderBase.exceptionFactory: "none" or a class
  initState,         \* OperationBuilderBase.initState
  currState,         \* OperationBuilderBase.currState
  pc,                \* where the pending build() / execute() call stands
  mode,              \* which call is pending or has settled: "build" / "execute"
  snapshot,          \* currState as it was when the call was made
  operation,         \* the local `operation` of build() / execute()
  validationErrors,  \* what the awaited validate(operation) yields
  validated,         \* the arguments validate received in this call
  executionStartedAt,\* the local `executionStartedAt` of execute()
  now,               \* process.hrtime, counted in milliseconds
  dispatched,        \* the arguments executor.execute received in this call
  result,            \* the local `result` of execute(): what the executor resolved with
  thrown,            \* the value the executor rejected with in this call
  outcome,           \* how the promise of the call settled
  log,               \* the calls the logger received during this call
  nextId,            \* identity of the next object allocated
  lastCall,          \* the builder method the caller called last
  nSets,             \* set / clear calls made so far
  nCalls,            \* build / execute calls made so far
  builderProxy,      \* TRUE when create() wrapped the builder in its Proxy
  returned,          \* what the last synchronous call on the builder gave back
  builders,          \* the builders a factory has created, each holding the
                     \* references of its initState and currState objects
  heap               \* the state objects of those builders, by reference

builderVars == <<ctor, createError, executor, logger, exceptionFactory,
                 initState, builderProxy>>
factoryVars == <<builders, heap>>
callVars == <<pc, mode, snapshot, operation, validationErrors, validated,
              executionStartedAt, dispatched, result, thrown, outcome, log>>
vars == <<factoryVars, builderVars, currState, callVars, now, nextId, lastCall, nSets,
          nCalls, returned>>

\* a synchronous call returns a value or throws
Returned(v) == [kind |-> "returned", value |-> v]
Threw(e) == [kind |-> "threw", value |-> e]

\* the two object identities a caller can hold: the builder, and the Proxy
BuilderBase == [cls |-> "OperationBuilderBase"]
BuilderProxy == [cls |-> "Proxy"]

NoOutcome == [kind |-> "none"]
Resolved(v) == [kind |-> "resolved", value |-> v]
Rejected(e) == [kind |-> "rejected", value |-> e]

Init ==
  /\ ctor = "none"
  /\ createError = Undefined
  /\ executor = "none"
  /\ logger = "none"
  /\ exceptionFactory = "none"
  /\ initState = <<>>
  /\ currState = <<>>
  /\ pc = "idle"
  /\ mode = "none"
  /\ snapshot = <<>>
  /\ operation = Undefined
  /\ validationErrors = <<>>
  /\ validated = <<>>
  /\ executionStartedAt = 0
  /\ now = 0
  /\ dispatched = <<>>
  /\ result = Undefined
  /\ thrown = Undefined
  /\ outcome = NoOutcome
  /\ log = <<>>
  /\ nextId = 1
  /\ lastCall = "none"
  /\ nSets = 0
  /\ nCalls = 0
  /\ builderProxy = FALSE
  /\ returned = Returned(Undefined)
  /\ builders = <<>>
  /\ heap = <<>>

\* ------------------------------------------------- OperationBuilderBase
PutMutantReplace(state, key, value) == [k \in {key} |-> value]

\* this.currState[key] = value
Put(state, key, value) ==
  [k \in DOMAIN state \cup {key} |-> IF k = key THEN value ELSE state[k]]

\* this.currState[key], undefined for a key the object does not hold
Read(state, key) == IF key \in DOMAIN state THEN state[key] ELSE Undefined

ClearedMutant(init, curr) == init

ClearedMutantWipe(init, curr) ==
  [k \in DOMAIN curr \cup DOMAIN init |->
     IF k \in DOMAIN init THEN init[k] ELSE Undefined]

\* clear(): every key of initState is written onto currState
Cleared(init, curr) ==
  [k \in DOMAIN curr \cup DOMAIN init |->
     IF k \in DOMAIN init THEN init[k] ELSE curr[k]]

InitialStateMutant(t, id) == <<>>

\* constructor: instanceToPlain(plainToInstance(ctor, {}, ...))
InitialState(t, id) == InstanceToPlain(PlainToInstance(t, id, <<>>))

\* get(key)
Get(key) == Read(currState, key)

MaterializedMutant(t, id, state) ==
  [cls |-> t, id |-> id,
   fields |-> [k \in DeclaredSet(t) \cup DOMAIN state |->
                 IF k \in DOMAIN state THEN state[k] ELSE FieldDefault(t, k)]]

\* build(): plainToInstance(this.ctor, this.currState, ...)
Materialized(t, id, state) == PlainToInstance(t, id, state)

MapToExceptionMutantRewrap(error, op, cls, id) ==
  IF InstanceOf(error.cls, "CommandHandlerNotFoundException")
       \/ InstanceOf(error.cls, "QueryHandlerNotFoundException")
  THEN HandlerNotFound(cls, id + 1, op, error)
  ELSE InternalHandlerError(cls, id + 1, op,
         IF InstanceOf(error.cls, "Error") THEN error
         ELSE NewError(id, String(error)))

MapToExceptionMutantNoCoerce(error, op, cls, id) ==
  IF InstanceOf(error.cls, "OperationFailedException") THEN error
  ELSE IF InstanceOf(error.cls, "CommandHandlerNotFoundException")
  THEN HandlerNotFound(cls, id + 1, op, error)
  ELSE IF InstanceOf(error.cls, "QueryHandlerNotFoundException")
  THEN HandlerNotFound(cls, id + 1, op, error)
  ELSE InternalHandlerError(cls, id + 1, op,
         IF InstanceOf(error.cls, "Error") THEN error
         ELSE NewError(id, "[object Object]"))

MapToExceptionMutantNotFound(error, op, cls, id) ==
  IF InstanceOf(error.cls, "OperationFailedException") THEN error
  ELSE IF InstanceOf(error.cls, "CommandHandlerNotFoundException")
  THEN HandlerNotFound(cls, id + 1, op, error)
  ELSE InternalHandlerError(cls, id + 1, op,
         IF InstanceOf(error.cls, "Error") THEN error
         ELSE NewError(id, String(error)))

MapToExceptionMutantUnclassified(error, op, cls, id) ==
  IF InstanceOf(error.cls, "OperationFailedException") THEN error
  ELSE IF InstanceOf(error.cls, "CommandHandlerNotFoundException")
  THEN HandlerNotFound(cls, id + 1, op, error)
  ELSE IF InstanceOf(error.cls, "QueryHandlerNotFoundException")
  THEN HandlerNotFound(cls, id + 1, op, error)
  ELSE InternalHandlerError("Error", id + 1, op,
         IF InstanceOf(error.cls, "Error") THEN error
         ELSE NewError(id, String(error)))

MapToException(error, op, cls, id) ==
  IF InstanceOf(error.cls, "OperationFailedException") THEN error
  ELSE IF InstanceOf(error.cls, "CommandHandlerNotFoundException")
  THEN HandlerNotFound(cls, id + 1, op, error)
  ELSE IF InstanceOf(error.cls, "QueryHandlerNotFoundException")
  THEN HandlerNotFound(cls, id + 1, op, error)
  ELSE InternalHandlerError(cls, id + 1, op,
         IF InstanceOf(error.cls, "Error") THEN error
         ELSE NewError(id, String(error)))

ExecuteReturnMutant(res, op) == op

\* execute(): `return result`
ExecuteReturn(res, op) == res

\* computeDurationInMs(executionStartedAt), read at time `at`
ComputeDurationInMs(startedAt, at) == at - startedAt

\* the logger a CommandFactory or a QueryFactory is constructed with
FactoryLogger(f) == IF f = "command" THEN "CommandLogger" ELSE "QueryLogger"

\* OperationLogger.operationKind, fixed by the constructor of the logger class
OperationKind(lg) == IF lg = "QueryLogger" THEN "query" ELSE "command"

\* operationKind.charAt(0).toUpperCase() + operationKind.slice(1)
Capitalized(kind) == IF kind = "query" THEN "Query" ELSE "Command"

\* OperationLogger.createLogMessage
CreateLogMessage(kind, message, payload) ==
  [message |-> Capitalized(kind) \o " " \o message,
   cqrs |-> [k \in {"kind"} \cup DOMAIN payload |->
              IF k = "kind" THEN kind ELSE payload[k]]]

\* logger.logSuccess(operationType, duration): the call the logger receives
\* and the record it hands to its sink
LogSuccess(operationType, duration) ==
  [name |-> operationType, duration |-> duration, event |-> "success",
   emitted |-> CreateLogMessage(OperationKind(logger),
     "\"" \o operationType \o "\" succeeded in " \o ToString(duration) \o "ms",
     [name |-> operationType, type |-> "success", duration |-> duration])]

\* logger.logFailure(exception, duration)
LogFailure(exception, duration) ==
  [duration |-> duration, event |-> "failure",
   emitted |-> CreateLogMessage(OperationKind(logger),
     "\"" \o exception.operation.cls \o "\" failed after "
       \o ToString(duration) \o "ms with code \"" \o exception.code
       \o "\" and a reason \"" \o exception.message \o "\"",
     [name |-> exception.operation.cls, type |-> "error",
      duration |-> duration, errorCode |-> exception.code,
      errorMessage |-> exception.message]),
   exception |-> exception]

\* ------------------------------------------------ the Proxy of create()
\* the names a caller reaches for on the Proxy: the fields of its operation
AccessorNames == Keys \cup {"logger"}

\* the methods of OperationBuilderBase
BuilderMethods ==
  {"setExceptionFactory", "setExecutor", "setLogger", "clear", "set", "get",
   "build", "execute", "computeDurationInMs", "mapToException"}

\* the data properties a builder made by create() holds
BuilderProperties ==
  {"initState", "currState", "ctor", "executor", "logger", "exceptionFactory"}

\* `prop in target`
InTarget(prop) == prop \in BuilderMethods \cup BuilderProperties

\* Reflect.apply on a target[prop] that is not a function
NotAFunction(prop) ==
  [cls |-> "TypeError", message |-> prop \o " is not a function"]

ProxyResultMutant(res) == res

\* `result === builderBase ? builderProxy : result`
ProxyResult(res) == IF res = BuilderBase THEN BuilderProxy ELSE res

\* what the caller of a builder method receives: the trap's answer when the
\* call went through the Proxy, the method's own result otherwise
CallResult(res) == IF builderProxy THEN ProxyResult(res) ELSE res

\* the function the get trap hands out for a name that is no builder method,
\* applied to args on a builder whose currState is curr
ProxyGet(prop, args, curr) ==
  IF InTarget(prop)
  THEN [curr |-> curr, ret |-> Threw(NotAFunction(prop))]
  ELSE IF Len(args) = 0
  THEN [curr |-> curr, ret |-> Returned(Read(curr, prop))]
  ELSE [curr |-> Put(curr, prop, args[1]), ret |-> Returned(BuilderProxy)]

\* ------------------------------------------------------------- actions
\* OperationFactory.create(operationCtor) on a CommandFactory or QueryFactory
Create(f, t) ==
  /\ ctor = "none"
  /\ createError = Undefined
  /\ LET ef == GetExceptionFactory(f, t)
     IN IF ef = "none"
        THEN /\ createError' = [cls |-> "TypeError",
                  message |-> "Missing exception factory. Did you forget to decorate the operation with a corresponding decorator @Command or @Query?",
                  id |-> nextId]
             /\ nextId' = nextId + 1
             /\ returned' = Threw(createError')
             /\ UNCHANGED <<ctor, executor, logger, exceptionFactory,
                            initState, currState, builderProxy>>
        ELSE /\ ctor' = t
             /\ initState' = InitialState(t, nextId)
             /\ currState' = Cleared(initState', <<>>)
             /\ executor' = "bus"
             /\ logger' = FactoryLogger(f)
             /\ exceptionFactory' = ef
             /\ nextId' = nextId + 1
             /\ builderProxy' = TRUE
             /\ returned' = Returned(BuilderProxy)
             /\ UNCHANGED createError
  /\ lastCall' = "create"
  /\ UNCHANGED <<factoryVars, callVars, now, nSets, nCalls>>

\* set(key, value), called on the builder or through its Proxy
Set(k, v) ==
  /\ ctor # "none"
  /\ nSets < MaxSets
  /\ currState' = Put(currState, k, v)
  /\ returned' = Returned(CallResult(BuilderBase))
  /\ nSets' = nSets + 1
  /\ lastCall' = "set"
  /\ UNCHANGED <<factoryVars, builderVars, callVars, now, nextId, nCalls>>

\* builderProxy[p](v): a name that is no builder method, called with one
\* argument through the Proxy
Accessor(p, v) ==
  /\ builderProxy
  /\ nSets < MaxSets
  /\ LET call == ProxyGet(p, <<v>>, currState)
     IN /\ currState' = call.curr
        /\ returned' = call.ret
  /\ nSets' = nSets + 1
  /\ lastCall' = IF InTarget(p) THEN p ELSE "set"
  /\ UNCHANGED <<factoryVars, builderVars, callVars, now, nextId, nCalls>>

\* clear(), called on the builder or through its Proxy
Clear ==
  /\ ctor # "none"
  /\ nSets < MaxSets
  /\ currState' = Cleared(initState, currState)
  /\ returned' = Returned(CallResult(BuilderBase))
  /\ nSets' = nSets + 1
  /\ lastCall' = "clear"
  /\ UNCHANGED <<factoryVars, builderVars, callVars, now, nextId, nCalls>>

StartBuildMutantWriteBack(m) ==
  /\ ctor # "none"
  /\ pc \in {"idle", "settled"}
  /\ nCalls < MaxCalls
  /\ mode' = m
  /\ snapshot' = currState
  /\ operation' = Materialized(ctor, nextId, currState)
  /\ currState' = operation'.fields
  /\ validationErrors' = Validate(operation')
  /\ validated' = <<operation'>>
  /\ nextId' = nextId + 1
  /\ pc' = "validating"
  /\ executionStartedAt' = 0
  /\ dispatched' = <<>>
  /\ result' = Undefined
  /\ thrown' = Undefined
  /\ outcome' = NoOutcome
  /\ log' = <<>>
  /\ nCalls' = nCalls + 1
  /\ lastCall' = m
  /\ UNCHANGED <<factoryVars, builderVars, now, nSets, returned>>

\* the synchronous head of build(): materialize, start validate, suspend
StartBuild(m) ==
  /\ ctor # "none"
  /\ pc \in {"idle", "settled"}
  /\ nCalls < MaxCalls
  /\ mode' = m
  /\ snapshot' = currState
  /\ operation' = Materialized(ctor, nextId, currState)
  /\ validationErrors' = Validate(operation')
  /\ validated' = <<operation'>>
  /\ nextId' = nextId + 1
  /\ pc' = "validating"
  /\ executionStartedAt' = 0
  /\ dispatched' = <<>>
  /\ result' = Undefined
  /\ thrown' = Undefined
  /\ outcome' = NoOutcome
  /\ log' = <<>>
  /\ nCalls' = nCalls + 1
  /\ lastCall' = m
  /\ UNCHANGED <<factoryVars, builderVars, currState, now, nSets, returned>>

\* build() called by the caller
BuildCall == StartBuild("build")

\* execute() called by the caller: both guards pass, build() is awaited
ExecuteCall ==
  /\ executor # "none"
  /\ exceptionFactory # "none"
  /\ StartBuild("execute")

\* build() resumes with violations: throws InvalidOperation.  Inside execute()
\* the await of build() stands before the try block, so the rejection leaves
\* execute() as it is
BuildRejects(d) ==
  /\ pc = "validating"
  /\ exceptionFactory # "none"
  /\ Len(validationErrors) > 0
  /\ now' = now + d
  /\ outcome' = Rejected(InvalidOperation(exceptionFactory, nextId, operation,
                                         validationErrors))
  /\ nextId' = nextId + 2
  /\ pc' = "settled"
  /\ UNCHANGED <<factoryVars, builderVars, currState, mode, snapshot, operation,
                 validationErrors, validated, executionStartedAt, dispatched, result,
                 thrown, log, lastCall, nSets, nCalls, returned>>

\* build() resumes without violations and returns the operation to the caller
BuildResolves(d) ==
  /\ pc = "validating"
  /\ mode = "build"
  /\ exceptionFactory # "none"
  /\ Len(validationErrors) = 0
  /\ now' = now + d
  /\ outcome' = Resolved(operation)
  /\ pc' = "settled"
  /\ UNCHANGED <<factoryVars, builderVars, currState, mode, snapshot, operation,
                 validationErrors, validated, executionStartedAt, dispatched, result,
                 thrown, log, nextId, lastCall, nSets, nCalls, returned>>

DispatchMutantRematerialize(d) ==
  /\ pc = "validating"
  /\ mode = "execute"
  /\ exceptionFactory # "none"
  /\ Len(validationErrors) = 0
  /\ now' = now + d
  /\ executionStartedAt' = now'
  /\ operation' = Materialized(ctor, operation.id, currState)
  /\ dispatched' = Append(dispatched, operation')
  /\ pc' = "dispatched"
  /\ UNCHANGED <<factoryVars, builderVars, currState, mode, snapshot,
                 validationErrors, validated, result, thrown, outcome, log, nextId,
                 lastCall, nSets, nCalls, returned>>

DispatchMutantStartBeforeBuild(d) ==
  /\ pc = "validating"
  /\ mode = "execute"
  /\ exceptionFactory # "none"
  /\ Len(validationErrors) = 0
  /\ now' = now + d
  /\ executionStartedAt' = now
  /\ dispatched' = Append(dispatched, operation)
  /\ pc' = "dispatched"
  /\ UNCHANGED <<factoryVars, builderVars, currState, mode, snapshot, operation,
                 validationErrors, validated, result, thrown, outcome, log, nextId,
                 lastCall, nSets, nCalls, returned>>

\* execute() resumes with the operation: takes the start time, dispatches
Dispatch(d) ==
  /\ pc = "validating"
  /\ mode = "execute"
  /\ exceptionFactory # "none"
  /\ Len(validationErrors) = 0
  /\ now' = now + d
  /\ executionStartedAt' = now'
  /\ dispatched' = Append(dispatched, operation)
  /\ pc' = "dispatched"
  /\ UNCHANGED <<factoryVars, builderVars, currState, mode, snapshot, operation,
                 validationErrors, validated, result, thrown, outcome, log, nextId,
                 lastCall, nSets, nCalls, returned>>

ExecutorResolvesMutantNoLog(r, d) ==
  /\ pc = "dispatched"
  /\ now' = now + d
  /\ result' = r
  /\ outcome' = Resolved(ExecuteReturn(result', operation))
  /\ pc' = "settled"
  /\ UNCHANGED <<factoryVars, builderVars, currState, mode, snapshot, operation,
                 validationErrors, validated, executionStartedAt, dispatched, thrown,
                 log, nextId, lastCall, nSets, nCalls, returned>>

\* the executor resolves with r: log success, return r
ExecutorResolves(r, d) ==
  /\ pc = "dispatched"
  /\ now' = now + d
  /\ log' = IF logger # "none"
            THEN Append(log, LogSuccess(operation.cls,
                   ComputeDurationInMs(executionStartedAt, now')))
            ELSE log
  /\ result' = r
  /\ outcome' = Resolved(ExecuteReturn(result', operation))
  /\ pc' = "settled"
  /\ UNCHANGED <<factoryVars, builderVars, currState, mode, snapshot, operation,
                 validationErrors, validated, executionStartedAt, dispatched, thrown,
                 nextId, lastCall, nSets, nCalls, returned>>

ExecutorRejectsMutantRetry(e, d) ==
  /\ pc = "dispatched"
  /\ now' = now + d
  /\ thrown' = e
  /\ dispatched' = Append(dispatched, operation)
  /\ UNCHANGED <<factoryVars, builderVars, currState, pc, mode, snapshot, operation,
                 validationErrors, validated, executionStartedAt, result,
                 outcome, log, nextId, lastCall, nSets, nCalls, returned>>

\* the executor rejects with e: map, log failure, throw
ExecutorRejects(e, d) ==
  /\ pc = "dispatched"
  /\ now' = now + d
  /\ thrown' = e
  /\ LET exception == MapToException(e, operation, exceptionFactory, nextId)
     IN /\ log' = IF logger # "none"
                  THEN Append(log, LogFailure(exception,
                         ComputeDurationInMs(executionStartedAt, now')))
                  ELSE log
        /\ outcome' = Rejected(exception)
  /\ nextId' = nextId + 2
  /\ pc' = "settled"
  /\ UNCHANGED <<factoryVars, builderVars, currState, mode, snapshot, operation,
                 validationErrors, validated, executionStartedAt, dispatched, result,
                 lastCall, nSets, nCalls, returned>>

Next ==
  \/ \E f \in {"command", "query"}, t \in OperationCtors : Create(f, t)
  \/ \E k \in Keys, v \in SetValues : Set(k, v)
  \/ \E p \in AccessorNames, v \in SetValues : Accessor(p, v)
  \/ Clear
  \/ BuildCall
  \/ ExecuteCall
  \/ \E d \in 0..MaxDelay : BuildRejects(d)
  \/ \E d \in 0..MaxDelay : BuildResolves(d)
  \/ \E d \in 0..MaxDelay : Dispatch(d)
  \/ \E r \in ExecutorResults, d \in 0..MaxDelay : ExecutorResolves(r, d)
  \/ \E e \in ExecutorRejections, d \in 0..MaxDelay : ExecutorRejects(e, d)

Spec == Init /\ [][Next]_vars

\* ------------------------------------------------ builders wired by hand
\* the operation classes a caller builds without a factory
DirectCtors == {"MyCommand"}

\* new OperationBuilderBase(operationCtor): no executor, logger or exception
\* factory yet, and no Proxy
Construct(t) ==
  /\ ctor = "none"
  /\ createError = Undefined
  /\ ctor' = t
  /\ initState' = InitialState(t, nextId)
  /\ currState' = Cleared(initState', <<>>)
  /\ nextId' = nextId + 1
  /\ returned' = Returned(BuilderBase)
  /\ lastCall' = "construct"
  /\ UNCHANGED <<factoryVars, createError, executor, logger, exceptionFactory,
                 builderProxy, callVars, now, nSets, nCalls>>

\* the builder is wired before it is used
Wiring == ctor # "none" /\ ~builderProxy /\ nSets = 0 /\ nCalls = 0

\* setExecutor(executor)
SetExecutor ==
  /\ Wiring
  /\ executor = "none"
  /\ executor' = "bus"
  /\ returned' = Returned(BuilderBase)
  /\ lastCall' = "setExecutor"
  /\ UNCHANGED <<factoryVars, ctor, createError, logger, exceptionFactory, initState,
                 builderProxy, currState, callVars, now, nextId, nSets, nCalls>>

\* setLogger(logger)
SetLogger ==
  /\ Wiring
  /\ logger = "none"
  /\ logger' = "CommandLogger"
  /\ returned' = Returned(BuilderBase)
  /\ lastCall' = "setLogger"
  /\ UNCHANGED <<factoryVars, ctor, createError, executor, exceptionFactory, initState,
                 builderProxy, currState, callVars, now, nextId, nSets, nCalls>>

\* setExceptionFactory(exceptionFactory)
SetExceptionFactory(cls) ==
  /\ Wiring
  /\ exceptionFactory = "none"
  /\ exceptionFactory' = cls
  /\ returned' = Returned(BuilderBase)
  /\ lastCall' = "setExceptionFactory"
  /\ UNCHANGED <<factoryVars, ctor, createError, executor, logger, initState,
                 builderProxy, currState, callVars, now, nextId, nSets, nCalls>>

MissingWiringErrorMutant(id, message) ==
  InternalHandlerError("CommandFailedException", id, Undefined,
                       NewError(id, message))

\* throw new Error('Operation ... is not set')
MissingWiringError(id, message) == NewError(id, message)

\* execute() on a builder without executor or without exception factory: the
\* guard throws before build() is called
ExecuteFatal ==
  /\ ctor # "none"
  /\ pc \in {"idle", "settled"}
  /\ nCalls < MaxCalls
  /\ executor = "none" \/ exceptionFactory = "none"
  /\ mode' = "execute"
  /\ snapshot' = currState
  /\ operation' = Undefined
  /\ validationErrors' = <<>>
  /\ validated' = <<>>
  /\ executionStartedAt' = 0
  /\ dispatched' = <<>>
  /\ result' = Undefined
  /\ thrown' = Undefined
  /\ log' = <<>>
  /\ outcome' = Rejected(MissingWiringError(nextId,
                   IF executor = "none" THEN "Operation executor is not set"
                   ELSE "Operation exception factory is not set"))
  /\ nextId' = nextId + 1
  /\ pc' = "settled"
  /\ nCalls' = nCalls + 1
  /\ lastCall' = "execute"
  /\ UNCHANGED <<factoryVars, builderVars, currState, now, nSets, returned>>

\* build() resumes after validate on a builder without exception factory
BuildFatal(d) ==
  /\ pc = "validating"
  /\ exceptionFactory = "none"
  /\ now' = now + d
  /\ outcome' = Rejected(MissingWiringError(nextId,
                   "Operation exception factory is not set"))
  /\ nextId' = nextId + 1
  /\ pc' = "settled"
  /\ UNCHANGED <<factoryVars, builderVars, currState, mode, snapshot, operation,
                 validationErrors, validated, executionStartedAt, dispatched, result,
                 thrown, log, lastCall, nSets, nCalls, returned>>

NextHandWired ==
  \/ Next
  \/ \E t \in DirectCtors : Construct(t)
  \/ SetExecutor
  \/ SetLogger
  \/ \E cls \in {"CommandFailedException"} : SetExceptionFactory(cls)
  \/ ExecuteFatal
  \/ \E d \in 0..MaxDelay : BuildFatal(d)

\* builders made by a factory or wired by hand
SpecHandWired == Init /\ [][NextHandWired]_vars

\* ----------------------------------------------- loggers that may throw
\* what a throwing logger method throws
LoggerError(id) == NewError(id, "Logger failed")

\* the executor resolves with r and logger.logSuccess throws inside the try:
\* the catch block maps the logger's error and calls logger.logFailure, which
\* records the event or (again) throws as well
ExecutorResolvesLogSuccessThrows(r, d, again) ==
  /\ pc = "dispatched"
  /\ logger # "none"
  /\ now' = now + d
  /\ result' = r
  /\ LET exception == MapToException(LoggerError(nextId), operation,
                                      exceptionFactory, nextId + 1)
     IN IF again
        THEN /\ log' = log
             /\ outcome' = Rejected(LoggerError(nextId + 3))
        ELSE /\ log' = Append(log, LogFailure(exception,
                         ComputeDurationInMs(executionStartedAt, now')))
             /\ outcome' = Rejected(exception)
  /\ nextId' = nextId + 4
  /\ pc' = "settled"
  /\ UNCHANGED <<factoryVars, builderVars, currState, mode, snapshot, operation,
                 validationErrors, validated, executionStartedAt, dispatched, thrown,
                 lastCall, nSets, nCalls, returned>>

\* the executor rejects with e and logger.logFailure throws inside the catch
\* block: the logger's error leaves execute() in place of the exception
ExecutorRejectsLogFailureThrows(e, d) ==
  /\ pc = "dispatched"
  /\ logger # "none"
  /\ now' = now + d
  /\ thrown' = e
  /\ log' = log
  /\ outcome' = Rejected(LoggerError(nextId + 2))
  /\ nextId' = nextId + 3
  /\ pc' = "settled"
  /\ UNCHANGED <<factoryVars, builderVars, currState, mode, snapshot, operation,
                 validationErrors, validated, executionStartedAt, dispatched, result,
                 lastCall, nSets, nCalls, returned>>

NextThrowingLogger ==
  \/ NextHandWired
  \/ \E r \in ExecutorResults, d \in 0..MaxDelay, again \in BOOLEAN :
        ExecutorResolvesLogSuccessThrows(r, d, again)
  \/ \E e \in ExecutorRejections, d \in 0..MaxDelay :
        ExecutorRejectsLogFailureThrows(e, d)

\* builders made by a factory or wired by hand, with a logger whose methods
\* may throw
SpecThrowingLogger == Init /\ [][NextThrowingLogger]_vars

\* ---------------------------------------------------------------------------
\* The exception taxonomy on its own: one call of the constructor or of a
\* static factory of an exception class, on inputs drawn from bounded sets.
\* ---------------------------------------------------------------------------

MaxErrors == 2

ExceptionClasses ==
  {"OperationFailedException", "CommandFailedException",
   "QueryFailedException", "CreateUserException"}

TestCommand == [cls |-> "TestCommand", id |-> 200, fields |-> <<>>]

Operations == {TestCommand, SomeOperation}

Reasons == {"Test reason", "User \"John\" already exists"}

Codes == {"TEST_ERROR", "USER_ALREADY_EXISTS"}

Error1 == NewError(303, "Error 1")
Error2 == NewError(304, "Error 2")

\* the causes the InternalHandlerError() tests pass, and an error class whose
\* `errors` property is not an array
OrigErrors ==
  {NewError(301, "Custom error"),
   NewAggregateError(302, <<Error1, Error2>>, "Aggregate error"),
   NewAggregateError(308, <<Error2>>, "Aggregate error"),
   [cls |-> "CustomError", errors |-> <<Error1, Error2>>,
    message |-> "Custom error",
    id |-> 305],
   [cls |-> "ReportError", errors |-> "2 errors", message |-> "Report failed",
    id |-> 306, warnings |-> "none"]}

IsNotEmpty(k) == <<"isNotEmpty", k \o " should not be empty">>
IsString(k) == <<"isString", k \o " must be a string">>

\* class-validator's ValidationError shapes: constraints and children are
\* optional properties
ValidationErrorShapes ==
  {[property |-> "name", children |-> <<>>],
   [constraints |-> <<IsNotEmpty("name")>>, property |-> "name"],
   [constraints |-> <<IsNotEmpty("role"), IsString("role")>>,
    property |-> "role",
    children |-> <<>>],
   [property |-> "name",
    children |-> <<[constraints |-> <<IsNotEmpty("length")>>,
                    property |-> "length"]>>],
   [property |-> "user",
    children |-> <<[constraints |-> <<IsNotEmpty("name")>>,
                    property |-> "name"],
                   [constraints |-> <<IsString("role")>>,
                    property |-> "role"]>>],
   [property |-> "user",
    children |-> <<[property |-> "address",
                    children |-> <<[constraints |-> <<IsNotEmpty("city")>>,
                        property |-> "city"]>>]>>]}

ValidationErrorLists ==
  UNION {[1..n -> ValidationErrorShapes] : n \in 1..MaxErrors}

\* new cls(code, operation, reason, origError)
NewExceptionCall(cls, code, op, reason, origError) ==
  /\ lastCall = "none"
  /\ returned' = Returned(NewException(cls, nextId, code, op, reason, origError))
  /\ nextId' = nextId + 1
  /\ lastCall' = "constructor"
  /\ UNCHANGED <<factoryVars, builderVars, currState, callVars, now, nSets, nCalls>>

\* cls.HandlerNotFound(operation, origError)
HandlerNotFoundCall(cls, op, origError) ==
  /\ lastCall = "none"
  /\ returned' = Returned(HandlerNotFound(cls, nextId, op, origError))
  /\ nextId' = nextId + 1
  /\ lastCall' = "HandlerNotFound"
  /\ UNCHANGED <<factoryVars, builderVars, currState, callVars, now, nSets, nCalls>>

\* cls.InternalHandlerError(operation, origError)
InternalHandlerErrorCall(cls, op, origError) ==
  /\ lastCall = "none"
  /\ returned' = Returned(InternalHandlerError(cls, nextId, op, origError))
  /\ nextId' = nextId + 1
  /\ lastCall' = "InternalHandlerError"
  /\ UNCHANGED <<factoryVars, builderVars, currState, callVars, now, nSets, nCalls>>

\* cls.InvalidOperation(operation, validationErrors)
InvalidOperationCall(cls, op, errors) ==
  /\ lastCall = "none"
  /\ returned' = Returned(InvalidOperation(cls, nextId, op, errors))
  /\ nextId' = nextId + 2
  /\ lastCall' = "InvalidOperation"
  /\ UNCHANGED <<factoryVars, builderVars, currState, callVars, now, nSets, nCalls>>

NextTaxonomy ==
  \/ \E cls \in ExceptionClasses, code \in Codes, op \in Operations,
        reason \in Reasons, origError \in OrigErrors \cup {NoError} :
       NewExceptionCall(cls, code, op, reason, origError)
  \/ \E cls \in ExceptionClasses, op \in Operations,
        origError \in OrigErrors \cup {NoError} :
       HandlerNotFoundCall(cls, op, origError)
  \/ \E cls \in ExceptionClasses, op \in Operations, origError \in OrigErrors :
       InternalHandlerErrorCall(cls, op, origError)
  \/ \E cls \in ExceptionClasses, op \in Operations,
        errors \in ValidationErrorLists :
       InvalidOperationCall(cls, op, errors)

SpecTaxonomy == Init /\ [][NextTaxonomy]_vars

\* ---------------------------------------------------------------------------
\* Several builders made by the factories: each builder holds references to
\* its own initState and currState objects, which live in the heap. nCalls
\* counts the calls made on the builders.
\* ---------------------------------------------------------------------------

MaxBuilders == 2

\* the classes the builders are created for: a command and a query with a
\* default; each has no exception factory in the other kind's factory
FactoryCtors == {"CreateUser", "GetUser"}

\* this.currState / this.initState of the b-th builder
CurrStateOf(b) == heap[builders[b].currState]
InitStateOf(b) == heap[builders[b].initState]

\* the object stored under reference r after a write of obj
Allocated(r, obj, h) ==
  [x \in DOMAIN h \cup {r} |-> IF x = r THEN obj ELSE h[x]]

CreateBuilderMutantSharedState(f, t) ==
  /\ Len(builders) < MaxBuilders
  /\ createError = Undefined
  /\ GetExceptionFactory(f, t) # "none"
  /\ LET currRef == IF Len(builders) > 0 THEN builders[1].currState
                    ELSE nextId + 1
     IN /\ builders' = Append(builders,
             [exceptionFactory |-> GetExceptionFactory(f, t),
              ctor |-> t, executor |-> "bus",
              logger |-> FactoryLogger(f),
              initState |-> nextId, currState |-> currRef])
        /\ heap' = Allocated(currRef,
                     Cleared(InitialState(t, nextId),
                             IF currRef \in DOMAIN heap THEN heap[currRef] ELSE <<>>),
                     Allocated(nextId, InitialState(t, nextId), heap))
  /\ nextId' = nextId + 2
  /\ returned' = Returned(BuilderProxy)
  /\ lastCall' = "create"
  /\ UNCHANGED <<builderVars, currState, callVars, now, nSets, nCalls>>

\* OperationFactory.create(operationCtor): a new OperationBuilderBase, whose
\* field initializers and constructor make its own state objects
CreateBuilder(f, t) ==
  /\ Len(builders) < MaxBuilders
  /\ createError = Undefined
  /\ LET ef == GetExceptionFactory(f, t)
     IN IF ef = "none"
        THEN /\ createError' = [cls |-> "TypeError",
                  message |-> "Missing exception factory. Did you forget to decorate the operation with a corresponding decorator @Command or @Query?",
                  id |-> nextId]
             /\ nextId' = nextId + 1
             /\ returned' = Threw(createError')
             /\ UNCHANGED factoryVars
        ELSE /\ builders' = Append(builders,
                  [exceptionFactory |-> ef, ctor |-> t, executor |-> "bus",
                   logger |-> FactoryLogger(f),
                   initState |-> nextId, currState |-> nextId + 1])
             /\ heap' = Allocated(nextId + 1,
                          Cleared(InitialState(t, nextId), <<>>),
                          Allocated(nextId, InitialState(t, nextId), heap))
             /\ nextId' = nextId + 2
             /\ returned' = Returned(BuilderProxy)
             /\ UNCHANGED createError
  /\ lastCall' = "create"
  /\ UNCHANGED <<ctor, executor, logger, exceptionFactory, initState,
                 builderProxy, currState, callVars, now, nSets, nCalls>>

\* set(key, value) on the b-th builder
SetOn(b, k, v) ==
  /\ b \in 1..Len(builders)
  /\ nCalls < MaxCalls
  /\ heap' = [heap EXCEPT ![builders[b].currState] = Put(@, k, v)]
  /\ returned' = Returned(BuilderProxy)
  /\ nCalls' = nCalls + 1
  /\ lastCall' = "set"
  /\ UNCHANGED <<builders, builderVars, currState, callVars, now, nextId, nSets>>

\* clear() on the b-th builder
ClearOn(b) ==
  /\ b \in 1..Len(builders)
  /\ nCalls < MaxCalls
  /\ heap' = [heap EXCEPT ![builders[b].currState] = Cleared(InitStateOf(b), @)]
  /\ returned' = Returned(BuilderProxy)
  /\ nCalls' = nCalls + 1
  /\ lastCall' = "clear"
  /\ UNCHANGED <<builders, builderVars, currState, callVars, now, nextId, nSets>>

\* get(key) on the b-th builder
GetOn(b, k) ==
  /\ b \in 1..Len(builders)
  /\ nCalls < MaxCalls
  /\ returned' = Returned(Read(CurrStateOf(b), k))
  /\ nCalls' = nCalls + 1
  /\ lastCall' = "get"
  /\ UNCHANGED <<factoryVars, builderVars, currState, callVars, now, nextId,
                 nSets>>

\* build() / execute() on the b-th builder, up to its first await: the
\* operation is materialized from the builder's currState and handed to
\* validate; nothing after that point reads or writes the builder's state
BuildOn(b, m) ==
  /\ b \in 1..Len(builders)
  /\ nCalls < MaxCalls
  /\ mode' = m
  /\ operation' = Materialized(builders[b].ctor, nextId, CurrStateOf(b))
  /\ validationErrors' = Validate(operation')
  /\ validated' = <<operation'>>
  /\ nextId' = nextId + 1
  /\ pc' = "validating"
  /\ nCalls' = nCalls + 1
  /\ lastCall' = m
  /\ UNCHANGED <<factoryVars, builderVars, currState, snapshot,
                 executionStartedAt, dispatched, result, thrown, outcome, log,
                 now, nSets, returned>>

NextFactory ==
  \/ \E f \in {"command", "query"}, t \in FactoryCtors : CreateBuilder(f, t)
  \/ \E b \in 1..MaxBuilders, k \in Keys, v \in SetValues : SetOn(b, k, v)
  \/ \E b \in 1..MaxBuilders : ClearOn(b)
  \/ \E b \in 1..MaxBuilders, k \in Keys : GetOn(b, k)
  \/ \E b \in 1..MaxBuilders, m \in {"build", "execute"} : BuildOn(b, m)

SpecFactory == Init /\ [][NextFactory]_vars

\* --------------------------------------------------------- properties
Range(seq) == {seq[i] : i \in 1..Len(seq)}

Settled(m) == pc = "settled" /\ mode = m

IsCommandBuilder == ctor \in DOMAIN CommandMetadata
IsQueryBuilder == ctor \in DOMAIN QueryMetadata

IsClassified(v) == InstanceOf(v.cls, "OperationFailedException")

IsHandlerNotFoundSignal(v) ==
  \/ InstanceOf(v.cls, "CommandHandlerNotFoundException")
  \/ InstanceOf(v.cls, "QueryHandlerNotFoundException")

ExecutorRejected == Settled("execute") /\ thrown # Undefined

\* C1: when the executor rejects with a value that already is an
\* OperationFailedException (of any subclass, of either branch), execute()
\* rejects with that very object: same identity, code, message and origError.
C1_AlreadyClassifiedPassesThrough ==
  (ExecutorRejected /\ IsClassified(thrown)) =>
     /\ outcome = Rejected(thrown)
     /\ outcome.value.id = thrown.id
     /\ outcome.value.code = thrown.code
     /\ outcome.value.message = thrown.message
     /\ outcome.value.origError = thrown.origError

\* a query-branch exception thrown through a command builder
C1_Witness ==
  /\ ExecutorRejected
  /\ thrown.cls = "QueryFailedException"
  /\ IsCommandBuilder
  /\ outcome = Rejected(thrown)

\* C2: when the executor rejects with a value that is neither an
\* OperationFailedException nor a handler-not-found signal, execute() rejects
\* with an exception of the configured class and code INTERNAL_HANDLER_ERROR;
\* origError is the thrown Error itself, or, for a non-Error value v, a new
\* Error whose message is String(v).
C2_OtherValuesBecomeInternalHandlerError ==
  (ExecutorRejected /\ ~IsClassified(thrown) /\ ~IsHandlerNotFoundSignal(thrown)) =>
     /\ outcome.kind = "rejected"
     /\ outcome.value.cls = exceptionFactory
     /\ outcome.value.code = "INTERNAL_HANDLER_ERROR"
     /\ IF InstanceOf(thrown.cls, "Error")
        THEN outcome.value.origError = thrown
        ELSE /\ outcome.value.origError.cls = "Error"
             /\ outcome.value.origError.message = String(thrown)
             /\ outcome.value.origError # thrown
             /\ \A e \in ExecutorRejections :
                  "id" \in DOMAIN e => e.id # outcome.value.origError.id

\* the number 42 thrown by the handler is wrapped as new Error("42")
C2_Witness ==
  /\ ExecutorRejected
  /\ thrown = Num(42)
  /\ outcome.kind = "rejected"
  /\ outcome.value.code = "INTERNAL_HANDLER_ERROR"
  /\ outcome.value.origError.message = "42"

\* C3: when the executor rejects with a handler-not-found signal, execute()
\* rejects with an exception of the configured class whose code is
\* HANDLER_NOT_FOUND and whose origError is the signal object itself; an
\* already classified value is never treated as a signal.
C3_HandlerNotFoundIsClassified ==
  (ExecutorRejected /\ IsHandlerNotFoundSignal(thrown)) =>
     /\ ~IsClassified(thrown)
     /\ outcome.kind = "rejected"
     /\ outcome.value.cls = exceptionFactory
     /\ outcome.value.code = "HANDLER_NOT_FOUND"
     /\ outcome.value.origError = thrown

\* the query bus' signal reaching a builder whose class is the default one
C3_Witness ==
  /\ ExecutorRejected
  /\ thrown.cls = "QueryHandlerNotFoundException"
  /\ exceptionFactory = "QueryFailedException"
  /\ outcome.kind = "rejected"
  /\ outcome.value.code = "HANDLER_NOT_FOUND"

\* C4: a build() whose materialized fields violate declared constraints never
\* returns an instance: it rejects with an exception of the configured class
\* whose code is INVALID_COMMAND for a command builder and INVALID_QUERY for a
\* query builder, and whose origError is an AggregateError listing every
\* validation error the validator reported.
C4_InvalidStateIsRejected ==
  (pc = "settled" /\ Len(validationErrors) > 0) =>
     /\ outcome.kind = "rejected"
     /\ outcome.value.cls = exceptionFactory
     /\ IsCommandBuilder => outcome.value.code = "INVALID_COMMAND"
     /\ IsQueryBuilder => outcome.value.code = "INVALID_QUERY"
     /\ outcome.value.origError.cls = "AggregateError"
     /\ outcome.value.origError.errors = validationErrors
     /\ outcome.value.operation = operation

\* build() on MyCommand with both fields too long: two violations
C4_Witness ==
  /\ Settled("build")
  /\ ctor = "MyCommand"
  /\ Len(validationErrors) = 2
  /\ outcome.kind = "rejected"
  /\ Len(outcome.value.origError.errors) = 2

\* C5: a build() whose fields satisfy all declared constraints resolves to an
\* instance of the operation type whose fields are the materialization of the
\* field snapshot the builder held when build() was called: every value the
\* snapshot holds, transformed; the declared default (or undefined) elsewhere.
C5_ValidBuildReturnsMaterializedSnapshot ==
  (Settled("build") /\ Len(validationErrors) = 0) =>
     /\ outcome.kind = "resolved"
     /\ outcome.value.cls = ctor
     /\ DOMAIN outcome.value.fields = DeclaredSet(ctor) \cup DOMAIN snapshot
     /\ \A k \in DOMAIN outcome.value.fields :
          outcome.value.fields[k] =
            IF Read(snapshot, k) # Undefined
            THEN Transform(ctor, k, snapshot[k])
            ELSE FieldDefault(ctor, k)

\* CreateUser built after name('John'): the instance holds the transformed name
C5_Witness ==
  /\ Settled("build")
  /\ ctor = "CreateUser"
  /\ Read(snapshot, "name") = Str("John")
  /\ outcome.kind = "resolved"
  /\ outcome.value.fields["name"] = Str("JOHN")

\* C6: when the builder's state is valid and the executor resolves with r,
\* execute() has dispatched exactly the instance build() produced, once, and
\* resolves with r unchanged.
C6_ExecuteDispatchesBuiltInstance ==
  (Settled("execute") /\ Len(validationErrors) = 0 /\ thrown = Undefined) =>
     /\ dispatched = <<operation>>
     /\ operation.cls = ctor
     /\ operation.fields = PlainToInstance(ctor, operation.id, snapshot).fields
     /\ outcome = Resolved(result)

\* the bus resolved with 42 for a valid MyCommand
C6_Witness ==
  /\ Settled("execute")
  /\ ctor = "MyCommand"
  /\ thrown = Undefined
  /\ Len(dispatched) = 1
  /\ result = Num(42)
  /\ outcome = Resolved(Num(42))

IsSuccessEvent(ev) == ev.event = "success"
IsFailureEvent(ev) == ev.event = "failure"

\* C7: for every execute() invocation on a builder with a logger attached the
\* logger receives exactly one event: one success event (type name, duration)
\* when execute() succeeds, one failure event carrying the thrown exception
\* when it fails, never both.
C7_ExactlyOneLogEvent ==
  (Settled("execute") /\ logger # "none") =>
     /\ Len(log) = 1
     /\ outcome.kind = "resolved" =>
          IsSuccessEvent(log[1]) /\ log[1].name = ctor
     /\ outcome.kind = "rejected" =>
          IsFailureEvent(log[1]) /\ log[1].exception = outcome.value

\* C8: every failure of execute() is logged before it propagates when a
\* logger is attached, the validation failure of build() included.
C8_EveryFailureIsLogged ==
  (Settled("execute") /\ logger # "none" /\ outcome.kind = "rejected") =>
     \E i \in 1..Len(log) :
        IsFailureEvent(log[i]) /\ log[i].exception = outcome.value

C10_ClearUnsetsEveryOtherField ==
  lastCall = "clear" =>
     \A k \in Keys :
        IF k \in DefaultedFields(ctor)
        THEN Get(k) = FieldDefault(ctor, k)
        ELSE Get(k) = Undefined

\* C10 amended: after any set calls followed by clear(), every field with a
\* declared default holds it, every field the type declares without a default
\* is unset, and a key the type does not declare keeps the value it had.
C10_ClearResetsDeclaredFields ==
  [][Clear =>
       \A k \in Keys :
          IF k \in DefaultedFields(ctor)
          THEN Read(currState', k) = FieldDefault(ctor, k)
          ELSE IF k \in DeclaredSet(ctor)
          THEN Read(currState', k) = Undefined
          ELSE Read(currState', k) = Read(currState, k)]_vars

\* role('JohnJohn').extra('John').clear(): role is back, extra is kept
C10_Witness ==
  /\ lastCall = "clear"
  /\ nSets >= 2
  /\ ctor = "MyCommand"
  /\ Get("role") = Str("user")
  /\ Get("name") = Undefined
  /\ Get("extra") # Undefined

\* C11: clear() writes only the keys of initState: every key that is not a key
\* of initState holds after clear() the value it held before, and is present
\* in currState after clear() exactly when it was before.
C11_ClearLeavesOtherKeysAlone ==
  [][Clear =>
       \A k \in Keys \ DOMAIN initState :
          /\ Read(currState', k) = Read(currState, k)
          /\ k \in DOMAIN currState' <=> k \in DOMAIN currState]_vars

\* extra('JohnJohn').clear() on GetUser, which declares no field `extra`
C11_Witness ==
  /\ lastCall = "clear"
  /\ ctor = "GetUser"
  /\ "extra" \notin DOMAIN initState
  /\ Get("extra") = Str("JohnJohn")

\* C12: set(k, v) overwrites exactly the field k of currState, validates
\* nothing (a value that violates the field's constraints is stored like any
\* other and no call state changes), leaves every other field as it was and
\* returns the builder; get(k) is the value of the most recent set(k, .)
\* since the last clear(), else the default, else undefined for a key never
\* set: get(k) is the default on a fresh builder, v after set(k, v), the
\* default (or still undefined) after clear(), and no other step changes it.
C12_SetOverwritesOneFieldGetReadsIt ==
  [][IF ctor = "none"
     THEN \A k \in Keys : Read(currState', k) = FieldDefault(ctor', k)
     ELSE IF nSets' = nSets
     THEN \A k \in Keys : Read(currState', k) = Read(currState, k)
     ELSE IF Clear
     THEN \A k \in Keys :
            /\ k \in DefaultedFields(ctor) =>
                 Read(currState', k) = FieldDefault(ctor, k)
            /\ (k \notin DefaultedFields(ctor) /\ Get(k) = Undefined) =>
                 Read(currState', k) = Undefined
     ELSE LET calls == {c \in Keys \X SetValues : Set(c[1], c[2])}
          IN IF calls = {}
             THEN \A k \in Keys : Read(currState', k) = Read(currState, k)
             ELSE \A c \in calls :
                    /\ Read(currState', c[1]) = c[2]
                    /\ DOMAIN currState' = DOMAIN currState \cup {c[1]}
                    /\ \A j \in Keys \ {c[1]} :
                         Read(currState', j) = Read(currState, j)
                    /\ returned' = Returned(IF builderProxy THEN BuilderProxy
                                            ELSE BuilderBase)
                    /\ UNCHANGED <<callVars, initState>>]_vars

\* name('John').name('JohnJohn') on a type whose name is limited to five
\* characters: the second value is stored and read back
C12_Witness ==
  /\ lastCall = "set"
  /\ nSets = 2
  /\ HasMaxLength(ctor, "name")
  /\ Get("name") = Str("JohnJohn")
  /\ Get("extra") = Undefined
  /\ returned.kind = "returned"
  /\ pc = "idle"

\* the step belongs to a build() or execute() call: it is the call itself or
\* one of its resumptions
IsCallStep == callVars' # callVars \/ nCalls' # nCalls

\* C13: build() and execute() never modify currState, on any path: no step of
\* a call changes it, so as long as build / execute is the last method called
\* every get(k) reads what it read when the call was made, whatever the
\* materialization did to the value in the instance; and a call made right
\* after a settled one, with no set / clear in between, materializes equal
\* field values and finds the same violations.
C13_BuildAndExecuteLeaveCurrState ==
  [][/\ IsCallStep => currState' = currState
     /\ lastCall' \in {"build", "execute"} =>
          \A k \in Keys : Read(currState', k) = Read(snapshot', k)
     /\ (IsCallStep /\ pc = "settled" /\ pc' = "validating"
           /\ lastCall \in {"build", "execute"}) =>
          /\ operation'.fields = operation.fields
          /\ validationErrors' = validationErrors]_vars

\* CreateUser after name('John'): the second call, an execute() whose handler
\* failed, dispatched JOHN while the builder still reads John
C13_Witness ==
  /\ Settled("execute")
  /\ nCalls = 2
  /\ lastCall = "execute"
  /\ thrown # Undefined
  /\ Len(dispatched) = 1
  /\ dispatched[1].fields["name"] = Str("JOHN")
  /\ Get("name") = Str("John")

\* C14: every name accessed on the Proxy that is not a method of the builder
\* is a field accessor: called with no argument it returns get(name) and
\* changes nothing, called with one argument v it performs set(name, v) and
\* returns the Proxy.
C14_EveryOtherNameIsAFieldAccessor ==
  builderProxy =>
    \A p \in AccessorNames \ BuilderMethods :
       /\ ProxyGet(p, <<>>, currState) =
            [curr |-> currState, ret |-> Returned(Get(p))]
       /\ \A v \in SetValues :
            ProxyGet(p, <<v>>, currState) =
              [curr |-> Put(currState, p, v), ret |-> Returned(BuilderProxy)]

\* C15: a method of the builder called through the Proxy runs on the builder,
\* and when its result is the builder the caller receives the Proxy instead:
\* after any chain of field setters and clear() made through the Proxy the
\* value in hand is the Proxy, and after clear() the accessor of every
\* declared field reads the cleared value.
C15_ChainedCallsReturnTheProxy ==
  (builderProxy /\ lastCall \in {"set", "clear"}) =>
     /\ returned = Returned(BuilderProxy)
     /\ returned # Returned(BuilderBase)
     /\ lastCall = "clear" =>
          \A k \in DeclaredSet(ctor) :
             ProxyGet(k, <<>>, currState).ret = Returned(FieldDefault(ctor, k))

\* extra('John').clear().name() on CreateUser
C15_Witness ==
  /\ builderProxy
  /\ ctor = "CreateUser"
  /\ lastCall = "clear"
  /\ nSets = 2
  /\ Get("extra") = Str("John")
  /\ returned = Returned(BuilderProxy)
  /\ ProxyGet("name", <<>>, currState).ret = Returned(Undefined)

\* the pending call ended on a plain Error: not an OperationFailedException,
\* no taxonomy code, and no timing, dispatch or logging took place
EndedFatally ==
  /\ outcome.kind = "rejected"
  /\ outcome.value.cls = "Error"
  /\ ~IsClassified(outcome.value)
  /\ "code" \notin DOMAIN outcome.value
  /\ executionStartedAt = 0
  /\ dispatched = <<>>
  /\ log = <<>>

DeclaredExceptionClass ==
  IF Throws(ctor) # "none" THEN Throws(ctor)
  ELSE IF IsCommandBuilder THEN "CommandFailedException"
  ELSE "QueryFailedException"

\* the settled call failed on an exception the builder constructed itself
BuilderMadeException ==
  /\ pc = "settled"
  /\ outcome.kind = "rejected"
  /\ thrown # Undefined => ~IsClassified(thrown)

\* C17: the exception class a builder uses is the one its type's descriptor
\* records.  On a builder made by a factory, every exception the builder
\* constructs (invalid operation, handler not found, internal handler error)
\* is of the class given as `throws` and carries one of that class's error
\* codes; without `throws` the class is CommandFailedException for a command
\* and QueryFailedException for a query.
C17_ExceptionClassComesFromDescriptor ==
  builderProxy =>
     /\ exceptionFactory = DeclaredExceptionClass
     /\ BuilderMadeException =>
          /\ outcome.value.cls = DeclaredExceptionClass
          /\ InstanceOf(outcome.value.cls, DeclaredExceptionClass)
          /\ \E c \in DOMAIN ErrorCodes(DeclaredExceptionClass) :
               outcome.value.code = ErrorCodes(DeclaredExceptionClass)[c]
          /\ \A i \in 1..Len(log) :
               IsFailureEvent(log[i]) =>
                 log[i].exception.cls = DeclaredExceptionClass

\* CreateUser is declared with throws: CreateUserException; its handler was
\* not found
C17_Witness ==
  /\ builderProxy
  /\ ctor = "CreateUser"
  /\ Settled("execute")
  /\ IsHandlerNotFoundSignal(thrown)
  /\ outcome.kind = "rejected"
  /\ outcome.value.cls = "CreateUserException"
  /\ outcome.value.code = "HANDLER_NOT_FOUND"

\* C18: nothing inside execute() is retried: in every execute() invocation
\* the executor is invoked at most once, exactly once when build() succeeded
\* and never when build() failed, and validation is run once.
C18_NothingIsRetried ==
  (mode = "execute") =>
     /\ Len(dispatched) <= 1
     /\ Len(validated) = 1
     /\ validated = <<operation>>
     /\ pc = "validating" => dispatched = <<>>
     /\ pc = "dispatched" => dispatched = <<operation>>
     /\ pc = "settled" =>
          IF Len(validationErrors) = 0
          THEN dispatched = <<operation>>
          ELSE dispatched = <<>> /\ outcome.kind = "rejected"

\* the handler failed and execute() settled after that one dispatch
C18_Witness ==
  /\ Settled("execute")
  /\ thrown \in OtherErrors
  /\ outcome.kind = "rejected"
  /\ Len(dispatched) = 1
  /\ Len(validated) = 1

\* the builder has both an executor and an exception factory
CorrectlyConfigured == executor # "none" /\ exceptionFactory # "none"

\* C19: on a correctly configured builder every failure path of execute()
\* ends in a thrown OperationFailedException and no failure is swallowed:
\* when validation failed or the executor rejected, execute() rejects, never
\* resolves, with an instance of OperationFailedException, and there is one
\* exception per invocation: validation failure and executor rejection never
\* both occur, and a logged exception is the one thrown.
C19_EveryFailureEndsInAClassifiedException ==
  (Settled("execute") /\ CorrectlyConfigured) =>
     /\ (Len(validationErrors) > 0 \/ thrown # Undefined) =>
          /\ outcome.kind = "rejected"
          /\ IsClassified(outcome.value)
          /\ \A i \in 1..Len(log) :
               IsFailureEvent(log[i]) /\ log[i].exception = outcome.value
          /\ Len(log) <= 1
     /\ ~(Len(validationErrors) > 0 /\ thrown # Undefined)
     /\ outcome.kind = "resolved" =>
          Len(validationErrors) = 0 /\ thrown = Undefined

\* a hand-wired builder with executor and exception factory and no logger,
\* whose handler threw the number 42
C19_Witness ==
  /\ Settled("execute")
  /\ ~builderProxy
  /\ CorrectlyConfigured
  /\ logger = "none"
  /\ thrown = Num(42)
  /\ outcome.kind = "rejected"
  /\ outcome.value.cls = "CommandFailedException"

\* what execute() yields from the executor's behaviour alone: r when the
\* executor resolved with r, the mapped exception when it rejected
OutcomeOfExecutor ==
  IF thrown = Undefined THEN Resolved(result)
  ELSE Rejected(MapToException(thrown, operation, exceptionFactory, 0))

\* C20: logging never changes the outcome: for the same builder state and
\* the same executor behaviour execute() returns the same result, or throws
\* an exception of the same identity (when the executor threw a classified
\* one), code and origError, whether or not a logger is attached and whatever
\* the logger does when called.
C20_LoggingNeverChangesTheOutcome ==
  (Settled("execute") /\ CorrectlyConfigured /\ Len(dispatched) = 1) =>
     /\ outcome.kind = OutcomeOfExecutor.kind
     /\ outcome.kind = "resolved" => outcome = Resolved(result)
     /\ outcome.kind = "rejected" =>
          /\ IsClassified(outcome.value)
          /\ outcome.value.cls = OutcomeOfExecutor.value.cls
          /\ outcome.value.code = OutcomeOfExecutor.value.code
          /\ outcome.value.message = OutcomeOfExecutor.value.message
          /\ IsClassified(thrown) => outcome.value = thrown
          /\ InstanceOf(thrown.cls, "Error") =>
               outcome.value.origError = OutcomeOfExecutor.value.origError

\* the closed code set of the branch an exception class belongs to, with the
\* entries the class itself declares
ClosedCodeSet(cls) ==
  (IF InstanceOf(cls, "CommandFailedException")
   THEN {"INTERNAL_HANDLER_ERROR", "HANDLER_NOT_FOUND", "INVALID_COMMAND"}
   ELSE IF InstanceOf(cls, "QueryFailedException")
   THEN {"INTERNAL_HANDLER_ERROR", "HANDLER_NOT_FOUND", "INVALID_QUERY"}
   ELSE {})
  \cup (IF cls = "CreateUserException" THEN {"USER_ALREADY_EXISTS"} ELSE {})

TaxonomyCalls ==
  {"constructor", "HandlerNotFound", "InternalHandlerError", "InvalidOperation"}

C22_MessageStartsWithOperation ==
  lastCall \in TaxonomyCalls =>
    returned.value.message =
      "Operation \"" \o returned.value.operation.cls \o "\" failed! "
        \o returned.value.reason

\* C22 (amended): for every code, operation and reason, the message of a
\* constructed failure exception is exactly
\* `Cqrs operation "<operation's declared type name>" failed! <reason>`,
\* whichever of the four constructors built it, and the reason of the three
\* static factories is the one they document.
C22_MessageIsSynthesized ==
  lastCall \in TaxonomyCalls =>
    /\ returned.value.message =
         "Cqrs operation \"" \o returned.value.operation.cls \o "\" failed! "
           \o returned.value.reason
    /\ lastCall = "constructor" => returned.value.reason \in Reasons
    /\ lastCall = "HandlerNotFound" =>
         returned.value.reason =
           "Handler for " \o OperationType(returned.value.cls) \o " \""
             \o returned.value.operation.cls \o "\" not found!"

C22_Witness ==
  /\ lastCall = "constructor"
  /\ returned.value.cls = "CommandFailedException"
  /\ returned.value.code = "TEST_ERROR"
  /\ returned.value.message = "Cqrs operation \"TestCommand\" failed! Test reason"

\* ---------------------------------------------------------------------------
\* C23: InvalidOperation renders the validation errors deterministically: the
\* reason is `Invalid <Kind>: ` followed by one block per top-level validation
\* error joined by a newline; each block is the line
\* `Validation of "<dotted.path>" failed!` (present even when the error has no
\* constraints and no children), followed by one tab-indented line
\* `"<constraintName>": <constraintMessage>.` per constraint, followed
\* recursively by each child's block with the child's path qualified by the
\* parent's path, each child block separated from the previous one by a
\* newline only.
\* ---------------------------------------------------------------------------
ConstraintsOf(error) ==
  IF "constraints" \in DOMAIN error THEN error.constraints ELSE <<>>

ChildrenOf(error) ==
  IF "children" \in DOMAIN error THEN error.children ELSE <<>>

RECURSIVE Concat(_)
Concat(seq) == IF Len(seq) = 0 THEN "" ELSE seq[1] \o Concat(Tail(seq))

RECURSIVE RenderedBlock(_, _)
RenderedBlock(error, parentPath) ==
  LET path == IF parentPath = "" THEN error.property
              ELSE parentPath \o "." \o error.property
  IN "Validation of \"" \o path \o "\" failed!"
     \o Concat([i \in 1..Len(ConstraintsOf(error)) |->
          "\n\t\"" \o ConstraintsOf(error)[i][1] \o "\": "
            \o ConstraintsOf(error)[i][2] \o "."])
     \o Concat([i \in 1..Len(ChildrenOf(error)) |->
          "\n" \o RenderedBlock(ChildrenOf(error)[i], path)])

RenderedReason(cls, errors) ==
  "Invalid " \o OperationType(cls) \o ": "
    \o Join([i \in 1..Len(errors) |-> RenderedBlock(errors[i], "")], "\n")

C23_ValidationErrorsAreRendered ==
  lastCall = "InvalidOperation" =>
    returned.value.reason =
      RenderedReason(returned.value.cls, returned.value.origError.errors)

\* ---------------------------------------------------------------------------
\* C24: InternalHandlerError builds the reason
\* `Internal handler error: <joined messages>` with first-match precedence: if
\* origError is an AggregateError, the inner errors' messages joined by a
\* newline in order; else if origError has an array-valued `errors` property,
\* those errors' messages joined by a newline; else origError's own message;
\* in every case origError itself is stored unchanged on the exception.
\* ---------------------------------------------------------------------------
HasArrayOfErrors(e) == e.cls = "CustomError"

JoinedMessages(e) ==
  IF e.cls = "AggregateError" \/ HasArrayOfErrors(e)
  THEN Concat([i \in 1..Len(e.errors) |->
         (IF i = 1 THEN "" ELSE "\n") \o e.errors[i].message])
  ELSE e.message

C24_InternalHandlerErrorReason ==
  lastCall = "InternalHandlerError" =>
    /\ returned.value.origError \in OrigErrors
    /\ returned.value.reason =
         "Internal handler error: " \o JoinedMessages(returned.value.origError)
    /\ returned.value.origError.id \in {302, 305} =>
         returned.value.reason = "Internal handler error: Error 1\nError 2"
    /\ returned.value.origError.id = 301 =>
         returned.value.reason = "Internal handler error: Custom error"
    /\ returned.value.origError.id = 306 =>
         returned.value.reason = "Internal handler error: Report failed"

C24_Witness ==
  /\ lastCall = "InternalHandlerError"
  /\ returned.value.origError.cls = "CustomError"
  /\ Len(returned.value.origError.errors) = 2
  /\ returned.value.reason = "Internal handler error: Error 1\nError 2"

\* ---------------------------------------------------------------------------
\* C25: for every failed execute(), the failure log record names the operation
\* that was executed: its `name` is the type name of the operation instance the
\* builder dispatched, its errorCode and errorMessage are the code and message
\* of the exception that execute() throws, and its kind is the kind fixed when
\* the logger was constructed.
\* ---------------------------------------------------------------------------
FailureRecords ==
  {log[i].emitted.cqrs : i \in {j \in 1..Len(log) : IsFailureEvent(log[j])}}

C25_FailureRecordNamesTheDispatchedOperation ==
  (Settled("execute") /\ outcome.kind = "rejected" /\ logger # "none") =>
    \A rec \in FailureRecords :
      /\ rec.name = dispatched[Len(dispatched)].cls
      /\ rec.errorCode = outcome.value.code
      /\ rec.errorMessage = outcome.value.message
      /\ rec.kind = (IF IsCommandBuilder THEN "command" ELSE "query")

\* ---------------------------------------------------------------------------
\* C26 (as stated): execute() is a single sequence materialize -> dispatch ->
\* log with exactly one suspension point, the await of the executor's dispatch:
\* no other step of execute() (in particular materialization and validation
\* inside build()) yields control, and after that suspension there is exactly
\* one exit, either log-success-and-return or classify-log-failure-and-throw.
\* ---------------------------------------------------------------------------
ExitedAfterDispatch ==
  /\ dispatched = <<operation>>
  /\ Len(log) = 1
  /\ \/ outcome.kind = "resolved" /\ IsSuccessEvent(log[1])
     \/ /\ outcome.kind = "rejected"
        /\ IsFailureEvent(log[1])
        /\ log[1].exception = outcome.value

C26_OnlyTheDispatchSuspends ==
  mode = "execute" =>
    /\ pc \in {"dispatched", "settled"}
    /\ pc = "dispatched" => dispatched = <<operation>> /\ outcome = NoOutcome
    /\ (pc = "settled" /\ dispatched # <<>>) => ExitedAfterDispatch

\* C26 (amended): execute() is a single sequence materialize -> validate ->
\* dispatch -> log with two suspension points, the await of build() (whose
\* validation is asynchronous) and the await of the executor's dispatch; the
\* materialization does not yield. A validation failure leaves execute() at
\* the first suspension, before anything is dispatched; after the second
\* suspension there is exactly one exit, either log-success-and-return or
\* classify-log-failure-and-throw.
C26_ValidationAndDispatchSuspend ==
  mode = "execute" =>
    /\ pc \in {"validating", "dispatched", "settled"}
    /\ pc = "validating" =>
         /\ validated = <<operation>>
         /\ dispatched = <<>> /\ log = <<>> /\ outcome = NoOutcome
    /\ pc = "dispatched" =>
         /\ Len(validationErrors) = 0
         /\ dispatched = <<operation>> /\ log = <<>> /\ outcome = NoOutcome
    /\ (pc = "settled" /\ dispatched = <<>>) =>
         /\ Len(validationErrors) > 0
         /\ outcome.kind = "rejected"
         /\ outcome.value.origError.errors = validationErrors
    /\ (pc = "settled" /\ dispatched # <<>>) => ExitedAfterDispatch

\* execute() is suspended in the await of build() and a set() has run meanwhile
C26_Witness ==
  /\ mode = "execute"
  /\ pc = "validating"
  /\ lastCall = "set"
  /\ currState # snapshot

\* ---------------------------------------------------------------------------
\* C27: the duration reported to the logger is never negative and measures
\* only the dispatch: the start timestamp is taken from a monotonic clock after
\* build() has succeeded and before the executor is invoked, the end timestamp
\* is taken after the executor settles, and the reported duration is their
\* difference, so time spent in materialization and validation is excluded.
\* ---------------------------------------------------------------------------
C27_DurationMeasuresTheDispatch ==
  /\ pc = "dispatched" =>
       /\ executionStartedAt = now
       /\ Len(validationErrors) = 0
  /\ (Settled("execute") /\ Len(log) > 0) =>
       /\ log[1].duration >= 0
       /\ log[1].duration = now - executionStartedAt
       /\ log[1].duration <= MaxDelay
       /\ log[1].emitted.cqrs.duration = log[1].duration

\* the first execute(): validation took one tick, the dispatch none
C27_Witness ==
  /\ Settled("execute")
  /\ nCalls = 1
  /\ now = 1
  /\ Len(log) = 1
  /\ log[1].duration = 0

\* ---------------------------------------------------------------------------
\* C28: the instance dispatched by execute() is a snapshot of currState taken
\* at the moment execute() is called: set() or clear() calls on the same
\* builder that are interleaved while validation or the executor's dispatch is
\* still pending change neither the field values of the instance handed to the
\* executor nor the operation carried by a resulting exception; they affect
\* only later build()/execute() calls.
\* ---------------------------------------------------------------------------
C28_DispatchedInstanceIsASnapshot ==
  mode = "execute" =>
    /\ operation = Materialized(ctor, operation.id, snapshot)
    /\ validated = <<operation>>
    /\ \A i \in 1..Len(dispatched) : dispatched[i] = operation
    /\ (pc = "settled" /\ outcome.kind = "rejected"
          /\ ~IsClassified(thrown)) =>
         outcome.value.operation = operation

\* name('JohnJohn') or clear() ran while the dispatch was pending: the builder
\* no longer holds what the executor was given
C28_Witness ==
  /\ mode = "execute"
  /\ pc = "dispatched"
  /\ lastCall \in {"set", "clear"}
  /\ currState # snapshot
  /\ dispatched = <<operation>>
  /\ operation # Materialized(ctor, operation.id, currState)

\* ---------------------------------------------------------------------------
\* C29: initState is captured once at construction and is never changed
\* afterwards: after any sequence of set, get, clear, build and execute calls
\* its key set and values equal those captured at construction, and no
\* operation ever removes a key from currState (the key set of currState only
\* grows and always contains every key of initState).
\* ---------------------------------------------------------------------------
C29_InitStateIsFrozenAndKeysOnlyGrow ==
  [][/\ ctor # "none" =>
          /\ initState' = initState
          /\ DOMAIN currState \subseteq DOMAIN currState'
     /\ ctor' # "none" =>
          /\ initState' = InitialState(ctor', 0)
          /\ DOMAIN initState' \subseteq DOMAIN currState']_vars

\* extra('John') ... clear() and a settled execute(): currState holds a key
\* more than initState, which is what the constructor captured
C29_Witness ==
  /\ Settled("execute")
  /\ lastCall = "clear"
  /\ nSets > 0
  /\ initState = InitialState(ctor, 0)
  /\ DOMAIN currState # DOMAIN initState
  /\ DOMAIN initState \subseteq DOMAIN currState

\* ---------------------------------------------------------------------------
\* C30: builders are independent: every create() call returns a new builder
\* with its own currState initialised from the type's defaults, and set,
\* clear, build or execute on one builder never changes what get returns on
\* any other builder, including another builder created by the same factory
\* for the same operation type and with calls on the two builders interleaved
\* in any order.
\* ---------------------------------------------------------------------------
GetReadsTheSame(c) ==
  \A k \in Keys :
    Read(heap'[builders'[c].currState], k) = Read(heap[builders[c].currState], k)

CallOn(b) ==
  \/ \E c \in Keys \X SetValues : SetOn(b, c[1], c[2])
  \/ ClearOn(b)
  \/ \E m \in {"build", "execute"} : BuildOn(b, m)
  \/ \E k \in Keys : GetOn(b, k)

StateReferences ==
  {builders[c].currState : c \in 1..Len(builders)}
    \cup {builders[c].initState : c \in 1..Len(builders)}

Changed == {c \in 1..Len(builders) : ~GetReadsTheSame(c)}

C30_BuildersAreIndependent ==
  [][/\ Changed # {} =>
          \A b \in 1..Len(builders) : CallOn(b) => Changed \subseteq {b}
     /\ Len(builders') > Len(builders) =>
          LET new == builders'[Len(builders')]
          IN /\ Changed = {}
             /\ new.currState \notin StateReferences
             /\ new.currState # new.initState
             /\ \A k \in Keys :
                  Read(heap'[new.currState], k) =
                    (IF k \in DeclaredSet(new.ctor)
                     THEN FieldDefault(new.ctor, k) ELSE Undefined)]_vars

\* two builders of the same factory and type: name('John') on the first,
\* name('JohnJohn') on the second, and each reads its own value
C30_Witness ==
  /\ Len(builders) = 2
  /\ builders[1].ctor = builders[2].ctor
  /\ builders[1].currState # builders[2].currState
  /\ lastCall = "set"
  /\ Read(CurrStateOf(1), "name") = Str("John")
  /\ Read(CurrStateOf(2), "name") = Str("JohnJohn")
====
